---- MODULE Spec2Model ----
(***************************************************************************)
(* Oriented-bounding-box detection of yolov8-tfjs: src/utils/detectOBB.js  *)
(* (geometry kernel, rotated IoU, rotated NMS, detectOBB, detectOBBVideo). *)
(*                                                                         *)
(* Numbers.  JavaScript numbers are modelled as exact rationals <<n, d>>   *)
(* in lowest terms with d > 0, extended with <<1,0>> (+Infinity),          *)
(* <<-1,0>> (-Infinity) and <<0,0>> (NaN) so that a division by zero gives *)
(* what the division gives in JavaScript.  Rounding of IEEE doubles is not *)
(* modelled.                                                               *)
(***************************************************************************)
EXTENDS Integers, Sequences, FiniteSets, TLC

\* ------------------------------------------------------------------------
\* Bounds of the model
\* ------------------------------------------------------------------------
MaxBoxes == 3      \* longest candidate list handed to applyNMS
MaxLoops == 2      \* most detectFrame loops App starts
MaxCoord == 1      \* greatest centre coordinate of the boxes handed to
                   \* calculateOBBIoU

\* ------------------------------------------------------------------------
\* Numbers
\* ------------------------------------------------------------------------
Abs(x) == IF x < 0 THEN -x ELSE x

Sign(x) == IF x < 0 THEN -1 ELSE IF x > 0 THEN 1 ELSE 0

RECURSIVE GCD(_, _)
GCD(a, b) == IF b = 0 THEN a ELSE GCD(b, a % b)

\* the number n/d, in lowest terms
Rat(n, d) ==
  IF d = 0 THEN <<Sign(n), 0>>
  ELSE LET g == GCD(Abs(n), Abs(d))
           s == Sign(d)
       IN  <<(s * n) \div g, (s * d) \div g>>

NaN == <<0, 0>>
Zero == <<0, 1>>
One == <<1, 1>>
Two == <<2, 1>>

IsNaN(a) == a = NaN

RNeg(a) == <<-a[1], a[2]>>

RAdd(a, b) ==
  IF a[2] = 0 /\ b[2] = 0 THEN (IF a = b THEN a ELSE NaN)
  ELSE IF a[2] = 0 THEN a
  ELSE IF b[2] = 0 THEN b
  ELSE Rat(a[1] * b[2] + b[1] * a[2], a[2] * b[2])

RSub(a, b) == RAdd(a, RNeg(b))

RMul(a, b) == Rat(a[1] * b[1], a[2] * b[2])

RInv(a) == Rat(a[2], a[1])

RDiv(a, b) == RMul(a, RInv(b))

RAbs(a) == <<Abs(a[1]), a[2]>>

\* a > b and a >= b; every comparison with NaN is false
RGt(a, b) ==
  IF IsNaN(a) \/ IsNaN(b) THEN FALSE
  ELSE IF a[2] = 0 /\ b[2] = 0 THEN a[1] > b[1]
  ELSE IF a[2] = 0 THEN a[1] > 0
  ELSE IF b[2] = 0 THEN b[1] < 0
  ELSE a[1] * b[2] > b[1] * a[2]

RGe(a, b) ==
  IF IsNaN(a) \/ IsNaN(b) THEN FALSE
  ELSE a = b \/ RGt(a, b)

\* ------------------------------------------------------------------------
\* Geometry kernel
\* ------------------------------------------------------------------------
\* the angles of the model and their numeric value in radians
AngleZero == Zero
AngleAtan43 == <<9273, 10000>>     \* atan(4/3)

\* Math.cos and Math.sin on those angles
MathCos(angle) ==
  CASE angle = AngleZero -> One
    [] angle = AngleAtan43 -> <<3, 5>>

MathSin(angle) ==
  CASE angle = AngleZero -> Zero
    [] angle = AngleAtan43 -> <<4, 5>>

\* one corner: the offset (dx, dy) rotated by the angle and moved to (cx, cy)
CornerX(cx, cosA, sinA, dx, dy) == RSub(RAdd(cx, RMul(cosA, dx)), RMul(sinA, dy))
CornerY(cy, cosA, sinA, dx, dy) == RAdd(RAdd(cy, RMul(sinA, dx)), RMul(cosA, dy))

convertToCorners(cx, cy, w, h, angle) ==
  LET cosA == MathCos(angle)
      sinA == MathSin(angle)
      dx1 == RNeg(RDiv(w, Two))  dy1 == RNeg(RDiv(h, Two))
      dx2 == RDiv(w, Two)        dy2 == RNeg(RDiv(h, Two))
      dx3 == RDiv(w, Two)        dy3 == RDiv(h, Two)
      dx4 == RNeg(RDiv(w, Two))  dy4 == RDiv(h, Two)
  IN  << CornerX(cx, cosA, sinA, dx1, dy1), CornerY(cy, cosA, sinA, dx1, dy1),
         CornerX(cx, cosA, sinA, dx2, dy2), CornerY(cy, cosA, sinA, dx2, dy2),
         CornerX(cx, cosA, sinA, dx3, dy3), CornerY(cy, cosA, sinA, dx3, dy3),
         CornerX(cx, cosA, sinA, dx4, dy4), CornerY(cy, cosA, sinA, dx4, dy4) >>

isInside(p, edgeStart, edgeEnd) ==
  RGe(RSub(RMul(RSub(edgeEnd.x, edgeStart.x), RSub(p.y, edgeStart.y)),
           RMul(RSub(edgeEnd.y, edgeStart.y), RSub(p.x, edgeStart.x))),
      Zero)

computeIntersection(s, e, clipEdgeStart, clipEdgeEnd) ==
  LET dc == [x |-> RSub(clipEdgeStart.x, clipEdgeEnd.x),
             y |-> RSub(clipEdgeStart.y, clipEdgeEnd.y)]
      dp == [x |-> RSub(s.x, e.x), y |-> RSub(s.y, e.y)]
      n1 == RSub(RMul(clipEdgeStart.x, clipEdgeEnd.y),
                 RMul(clipEdgeStart.y, clipEdgeEnd.x))
      n2 == RSub(RMul(s.x, e.y), RMul(s.y, e.x))
      n3 == RDiv(One, RSub(RMul(dc.x, dp.y), RMul(dc.y, dp.x)))
  IN  [x |-> RMul(RSub(RMul(n1, dp.x), RMul(n2, dc.x)), n3),
       y |-> RMul(RSub(RMul(n1, dp.y), RMul(n2, dc.y)), n3)]

\* the inner loop of clipPolygons over inputList[j..]; S is the LAST point of
\* inputList for every j (the code declares it const and never advances it)
RECURSIVE ClipEdgeLoop(_, _, _, _, _, _)
ClipEdgeLoop(inputList, S, clipEdgeStart, clipEdgeEnd, j, outputList) ==
  IF j > Len(inputList) THEN outputList
  ELSE
    LET E == inputList[j]
        out ==
          IF isInside(E, clipEdgeStart, clipEdgeEnd)
          THEN (IF ~isInside(S, clipEdgeStart, clipEdgeEnd)
                THEN Append(outputList,
                            computeIntersection(S, E, clipEdgeStart, clipEdgeEnd))
                ELSE outputList) \o <<E>>
          ELSE IF isInside(S, clipEdgeStart, clipEdgeEnd)
          THEN Append(outputList,
                      computeIntersection(S, E, clipEdgeStart, clipEdgeEnd))
          ELSE outputList
    IN  ClipEdgeLoop(inputList, S, clipEdgeStart, clipEdgeEnd, j + 1, out)

\* the outer loop of clipPolygons from clip edge i on
RECURSIVE ClipLoop(_, _, _)
ClipLoop(outputList, clipPolygon, i) ==
  IF i > Len(clipPolygon) THEN outputList
  ELSE IF Len(outputList) = 0 THEN <<>>
  ELSE
    LET clipEdgeStart == clipPolygon[i]
        clipEdgeEnd == clipPolygon[(i % Len(clipPolygon)) + 1]
        S == outputList[Len(outputList)]
    IN  ClipLoop(ClipEdgeLoop(outputList, S, clipEdgeStart, clipEdgeEnd, 1, <<>>),
                 clipPolygon, i + 1)

clipPolygons(subjectPolygon, clipPolygon) == ClipLoop(subjectPolygon, clipPolygon, 1)

RECURSIVE AreaLoop(_, _, _)
AreaLoop(polygon, i, area) ==
  IF i > Len(polygon) THEN area
  ELSE LET j == (i % Len(polygon)) + 1
       IN  AreaLoop(polygon, i + 1,
                    RSub(RAdd(area, RMul(polygon[i].x, polygon[j].y)),
                         RMul(polygon[j].x, polygon[i].y)))

calculatePolygonArea(polygon) == RDiv(RAbs(AreaLoop(polygon, 1, Zero)), Two)

CornersToPolygon(corners) ==
  [i \in 1..4 |-> [x |-> corners[2 * i - 1], y |-> corners[2 * i]]]

calculateOBBIoU(box1Corners, box2Corners) ==
  LET polygon1 == CornersToPolygon(box1Corners)
      polygon2 == CornersToPolygon(box2Corners)
      intersection == clipPolygons(polygon1, polygon2)
  IN  IF Len(intersection) = 0 THEN Zero
      ELSE LET area1 == calculatePolygonArea(polygon1)
               area2 == calculatePolygonArea(polygon2)
               intersectionArea == calculatePolygonArea(intersection)
           IN  RDiv(intersectionArea,
                    RSub(RAdd(area1, area2), intersectionArea))

\* ------------------------------------------------------------------------
\* Inputs of the model
\* ------------------------------------------------------------------------
\* an absent array or object (no shape, no names, no size) is the empty one
Absent == <<>>
\* undefined where a number is read, and as the key of an object
UndefinedNumber == <<>>
UndefinedName == "undefined"

\* raw detections, in model-input pixels: two 2x2 boxes half a width apart
Centers == {Zero, One}
Widths == {Two}
Heights == {Two}
Angles == {AngleZero, AngleAtan43}
\* class scores of one row: class 0 ahead, class 1 ahead, and two ties, each
\* equal to one of the confidence thresholds
ScoreVectors ==
  { << <<9, 10>>, <<3, 10>> >>, << <<3, 10>>, <<4, 5>> >>,
    << <<1, 2>>, <<1, 2>> >>, << <<7, 20>>, <<7, 20>> >> }
Confidences == {<<4, 5>>, <<9, 10>>}
ClassIndices == {0, 1}
ConfThresholds == {<<7, 20>>, <<1, 2>>}
IouThresholds == {<<1, 10>>, <<1, 2>>}

\* the image source, the default model input size and the one of the metadata
SourceSize == <<1024, 1024>>
DefaultImageSize == <<1024, 1024>>
MetadataImageSize == <<512, 512>>
\* display scale canvas.width / modelWidth for those sizes
Scales == {One, Two}

\* the corner arrays of the boxes of the model
CornerArrays ==
  { convertToCorners(RMul(cx, sc), Zero, RMul(w, sc), RMul(h, sc), a) :
      cx \in Centers, w \in Widths, h \in Heights, a \in Angles, sc \in Scales }

\* calculateOBBIoU on the boxes of the model, evaluated once (@@ makes the
\* function explicit)
IoUMemo ==
  [c \in CornerArrays \X CornerArrays |-> calculateOBBIoU(c[1], c[2])] @@ <<>>

OBBIoU(box1Corners, box2Corners) ==
  IF <<box1Corners, box2Corners>> \in DOMAIN IoUMemo
  THEN IoUMemo[<<box1Corners, box2Corners>>]
  ELSE calculateOBBIoU(box1Corners, box2Corners)

\* ------------------------------------------------------------------------
\* Rotated NMS
\* ------------------------------------------------------------------------
\* [...boxes].sort((a, b) => b.confidence - a.confidence): Array.prototype.sort
\* is stable, so a box goes behind every box of greater or equal confidence
\* InsertSorted of an unstable sort: a box goes before its equals
RECURSIVE InsertSortedUnstable(_, _)
InsertSortedUnstable(sorted, box) ==
  IF sorted = <<>> THEN <<box>>
  ELSE IF RGt(Head(sorted).confidence, box.confidence)
  THEN <<Head(sorted)>> \o InsertSortedUnstable(Tail(sorted), box)
  ELSE <<box>> \o sorted

RECURSIVE InsertSorted(_, _)
InsertSorted(sorted, box) ==
  IF sorted = <<>> THEN <<box>>
  ELSE IF RGe(Head(sorted).confidence, box.confidence)
  THEN <<Head(sorted)>> \o InsertSorted(Tail(sorted), box)
  ELSE <<box>> \o sorted

RECURSIVE SortLoop(_, _, _)
SortLoop(boxes, i, sorted) ==
  IF i > Len(boxes) THEN sorted
  ELSE SortLoop(boxes, i + 1, InsertSorted(sorted, boxes[i]))

\* SortByConfidence without the sort: the copy in the order given
CopyUnsorted(boxes) == boxes

SortByConfidence(boxes) == SortLoop(boxes, 1, <<>>)

RemoveAt(s, i) == [k \in 1..(Len(s) - 1) |-> IF k < i THEN s[k] ELSE s[k + 1]]

\* Suppresses without the comparison of the classes
SuppressesAnyClass(currentBox, other, iouThreshold) ==
  RGt(OBBIoU(currentBox.corners, other.corners), iouThreshold)

\* the test of the inner loop: same class and IoU above the threshold
Suppresses(currentBox, other, iouThreshold) ==
  /\ currentBox.classIndex = other.classIndex
  /\ RGt(OBBIoU(currentBox.corners, other.corners), iouThreshold)

\* SuppressLoop that moves on after a splice too, skipping a box
RECURSIVE SuppressLoopSkipping(_, _, _, _)
SuppressLoopSkipping(sortedBoxes, currentBox, iouThreshold, i) ==
  IF i > Len(sortedBoxes) THEN sortedBoxes
  ELSE IF Suppresses(currentBox, sortedBoxes[i], iouThreshold)
  THEN SuppressLoopSkipping(RemoveAt(sortedBoxes, i), currentBox, iouThreshold, i + 1)
  ELSE SuppressLoopSkipping(sortedBoxes, currentBox, iouThreshold, i + 1)

\* the inner while loop: splice at i, or move on
RECURSIVE SuppressLoop(_, _, _, _)
SuppressLoop(sortedBoxes, currentBox, iouThreshold, i) ==
  IF i > Len(sortedBoxes) THEN sortedBoxes
  ELSE IF Suppresses(currentBox, sortedBoxes[i], iouThreshold)
  THEN SuppressLoop(RemoveAt(sortedBoxes, i), currentBox, iouThreshold, i)
  ELSE SuppressLoop(sortedBoxes, currentBox, iouThreshold, i + 1)

\* the outer while loop: shift the best box, push it, filter the rest
RECURSIVE SelectLoop(_, _, _)
SelectLoop(sortedBoxes, selectedBoxes, iouThreshold) ==
  IF Len(sortedBoxes) = 0 THEN selectedBoxes
  ELSE LET currentBox == Head(sortedBoxes)
       IN  SelectLoop(SuppressLoop(Tail(sortedBoxes), currentBox, iouThreshold, 1),
                      Append(selectedBoxes, currentBox), iouThreshold)

applyNMS(boxes, iouThreshold) ==
  SelectLoop(SortByConfidence(boxes), <<>>, iouThreshold)

\* the candidates of the NMS specification: boxes at display scale 1
CandidateBoxes ==
  { [corners |-> convertToCorners(cx, Zero, w, h, a),
     confidence |-> c, classIndex |-> k] :
      cx \in Centers, w \in Widths, h \in Heights, a \in Angles,
      c \in Confidences, k \in ClassIndices }

CandidateLists == UNION { [1..n -> CandidateBoxes] : n \in 0..MaxBoxes }

\* ------------------------------------------------------------------------
\* Module-level configuration
\* ------------------------------------------------------------------------
\* CLASS_NAMES as declared (the first two of the fifteen DOTA names: the
\* rows of the model carry two class scores)
DefaultClassNames == <<"plane", "ship">>

\* the metadata objects updateModelConfig is called with; names maps the
\* keys "0", "1", ... to class names
Metadatas ==
  { [names |-> (1 :> "plane" @@ 0 :> "ship"), imgsz |-> MetadataImageSize],
    [names |-> (0 :> "plane" @@ 1 :> "ship" @@ 2 :> "harbor"), imgsz |-> Absent],
    [names |-> Absent, imgsz |-> MetadataImageSize] }

\* Object.entries(names).sort by parseInt(key), mapped to the names
RECURSIVE EntriesByKey(_, _)
EntriesByKey(names, keys) ==
  IF keys = {} THEN <<>>
  ELSE LET k == CHOOSE x \in keys : \A y \in keys : x <= y
       IN  <<names[k]>> \o EntriesByKey(names, keys \ {k})

NamesOf(metadata) == EntriesByKey(metadata.names, DOMAIN metadata.names)

\* ------------------------------------------------------------------------
\* Model outputs
\* ------------------------------------------------------------------------
MaxDet == 2        \* most detections in the model output for an image
MaxVideoDet == 1   \* most detections in the model output for a video frame

RawRows ==
  { <<cx, Zero, w, h>> \o sv \o <<a>> :
      cx \in Centers, w \in Widths, h \in Heights, sv \in ScoreVectors,
      a \in {AngleZero} }

ChannelCount == 4 + Len(DefaultClassNames) + 1

\* predsArray[0] for the rows of a frame: one array per channel
Channels(rows) ==
  [j \in 1..ChannelCount |-> [i \in 1..Len(rows) |-> rows[i][j]]]

PredictionData(maxRows) ==
  { Channels(rows) : rows \in UNION { [1..n -> RawRows] : n \in 0..maxRows } }

\* what arraySync() gives for a tensor of three dimensions: the channels of
\* one batch, a batch without channels, or no batch at all
PredsArrays(maxRows) ==
  { <<d>> : d \in PredictionData(maxRows) } \cup { << <<>> >>, <<>> }

\* no outputs yet
NoOutputs == [isArray |-> FALSE, tensors |-> <<>>]

\* a tensor, by the length of its shape
Tensor3 == [shapeLength |-> 3]
Tensor2 == [shapeLength |-> 2]

\* what executeAsync resolves to: one tensor or an array of tensors
ModelOutputs ==
  { [isArray |-> FALSE, tensors |-> <<Tensor3>>],
    [isArray |-> TRUE, tensors |-> <<Tensor3>>],
    [isArray |-> TRUE, tensors |-> <<Tensor2, Tensor3>>],
    [isArray |-> FALSE, tensors |-> <<Tensor2>>],
    [isArray |-> TRUE, tensors |-> <<Tensor2>>] }

\* the tensors of a call, as the number of times each has been disposed:
\* img, input, then the outputs of the model in their order
ImgAndInput == <<0, 0>>

\* the tensors once executeAsync has resolved to out
WithOutputs(tensors, out) == tensors \o [i \in 1..Len(out.tensors) |-> 0]

\* tf.dispose([img, input, ...outputs]), line 269
DisposeAll(tensors) == [i \in 1..Len(tensors) |-> tensors[i] + 1]

\* tf.dispose([img, input]), line 399
DisposeImgAndInput(tensors) ==
  [i \in 1..Len(tensors) |-> IF i <= Len(ImgAndInput) THEN tensors[i] + 1
                             ELSE tensors[i]]

\* lines 229-253: the index in outputs of the tensor that holds the predictions
SelectPredictions(out) ==
  IF out.isArray
  THEN IF out.tensors[1].shapeLength = 3 THEN 1
       ELSE IF \E i \in 1..Len(out.tensors) : out.tensors[i].shapeLength = 3
       THEN CHOOSE i \in 1..Len(out.tensors) :
              /\ out.tensors[i].shapeLength = 3
              /\ \A k \in 1..(i - 1) : out.tensors[k].shapeLength # 3
       ELSE 1
  ELSE 1

\* ------------------------------------------------------------------------
\* Box decoder
\* ------------------------------------------------------------------------
MinOf(a, b) == IF a < b THEN a ELSE b

\* Array.prototype.slice(from, to), indices from 0
Slice(arr, from, to) ==
  LET last == MinOf(to, Len(arr))
  IN  IF from >= last THEN <<>> ELSE [k \in 1..(last - from) |-> arr[from + k]]

\* Math.max(...values): -Infinity of nothing, NaN if any value is NaN
RECURSIVE MathMaxLoop(_, _, _)
MathMaxLoop(values, i, best) ==
  IF i > Len(values) THEN best
  ELSE IF IsNaN(values[i]) \/ IsNaN(best) THEN MathMaxLoop(values, i + 1, NaN)
  ELSE MathMaxLoop(values, i + 1, IF RGt(values[i], best) THEN values[i] ELSE best)

MathMax(values) == MathMaxLoop(values, 1, <<-1, 0>>)

\* Array.prototype.lastIndexOf(value)
LastIndexOf(arr, value) ==
  IF IsNaN(value) \/ ~(\E k \in 1..Len(arr) : arr[k] = value) THEN -1
  ELSE (CHOOSE k \in 1..Len(arr) :
          arr[k] = value /\ \A m \in (k + 1)..Len(arr) : arr[m] # value) - 1

\* Array.prototype.indexOf(value): first index from 0, -1 if absent; strict
\* equality, so NaN is never found
IndexOf(arr, value) ==
  IF IsNaN(value) \/ ~(\E k \in 1..Len(arr) : arr[k] = value) THEN -1
  ELSE (CHOOSE k \in 1..Len(arr) :
          arr[k] = value /\ \A m \in 1..(k - 1) : arr[m] # value) - 1

\* CLASS_NAMES[classIndex]
NameAt(names, classIndex) ==
  IF (classIndex + 1) \in DOMAIN names THEN names[classIndex + 1] ELSE UndefinedName

\* classCounts[className] = (classCounts[className] || 0) + 1
IncrementCount(classCounts, className) ==
  IF className \in DOMAIN classCounts
  THEN [classCounts EXCEPT ![className] = @ + 1]
  ELSE classCounts @@ (className :> 1)

\* lines 285-288: a count of 0 under every class name
InitialCounts(names) == [name \in {names[k] : k \in DOMAIN names} |-> 0]

\* lines 308-326: one detection row read out of the channels
RowData(predictions_data, i) ==
  [j \in 1..Len(predictions_data) |-> predictions_data[j][i]]

ClassScores(data, names) == Slice(data, 4, 4 + Len(names))

RowClassIndex(data, names) ==
  IndexOf(ClassScores(data, names), MathMax(ClassScores(data, names)))

RowConfidence(data, names) ==
  IF RowClassIndex(data, names) = -1 THEN UndefinedNumber
  ELSE ClassScores(data, names)[RowClassIndex(data, names) + 1]

\* line 329: confidence > threshold (false of undefined)
PassesAtOrAbove(confidence, threshold) ==
  confidence # UndefinedNumber /\ RGe(confidence, threshold)

PassesThreshold(confidence, threshold) ==
  confidence # UndefinedNumber /\ RGt(confidence, threshold)

\* lines 339-355: the candidate box of a row
RowBox(data, names, scaleX, scaleY) ==
  [corners |-> convertToCorners(RMul(data[1], scaleX), RMul(data[2], scaleY),
                                RMul(data[3], scaleX), RMul(data[4], scaleY),
                                data[Len(data)]),
   confidence |-> RowConfidence(data, names),
   classIndex |-> RowClassIndex(data, names)]

\* lines 305-357: the loop over the detections from row i on; acc holds the
\* boxes pushed and the counts incremented so far
RECURSIVE DecodeLoop(_, _, _, _, _, _, _)
DecodeLoop(predictions_data, names, threshold, scaleX, scaleY, i, acc) ==
  IF i > Len(predictions_data[1]) THEN acc
  ELSE
    LET data == RowData(predictions_data, i)
        next ==
          IF PassesThreshold(RowConfidence(data, names), threshold)
          THEN [boxes |-> Append(acc.boxes, RowBox(data, names, scaleX, scaleY)),
                classCounts |->
                  IncrementCount(acc.classCounts,
                                 NameAt(names, RowClassIndex(data, names)))]
          ELSE acc
    IN  DecodeLoop(predictions_data, names, threshold, scaleX, scaleY, i + 1, next)

\* lines 366-374: the counts set back to 0, then one per box that survived
RECURSIVE CountBoxes(_, _, _, _)
CountBoxes(classCounts, filteredBoxes, names, i) ==
  IF i > Len(filteredBoxes) THEN classCounts
  ELSE CountBoxes(IncrementCount(classCounts,
                                 NameAt(names, filteredBoxes[i].classIndex)),
                  filteredBoxes, names, i + 1)

ResetCounts(classCounts) == [key \in DOMAIN classCounts |-> 0]

TallyKeepingCounts(classCounts, filteredBoxes, names) ==
  CountBoxes(classCounts, filteredBoxes, names, 1)

Tally(classCounts, filteredBoxes, names) ==
  CountBoxes(ResetCounts(classCounts), filteredBoxes, names, 1)

\* Object.values(classCounts).reduce((sum, count) => sum + count, 0)
RECURSIVE SumOver(_, _)
SumOver(classCounts, keys) ==
  IF keys = {} THEN 0
  ELSE LET k == CHOOSE x \in keys : TRUE
       IN  classCounts[k] + SumOver(classCounts, keys \ {k})

TotalDetections(classCounts) == SumOver(classCounts, DOMAIN classCounts)

\* lines 449-451: the label drawn on each box
DrawnLabels(boxes, names) ==
  [i \in 1..Len(boxes) |-> NameAt(names, boxes[i].classIndex)]

\* lines 392-394: the calls of model.onCountChange
CountChangeCallsTwice(onCountChange, totalDetections) ==
  IF onCountChange THEN <<totalDetections, totalDetections>> ELSE <<>>

CountChangeCalls(onCountChange, totalDetections) ==
  IF onCountChange THEN <<totalDetections>> ELSE <<>>

\* lines 366-394: tally, drawing and count callback for the boxes NMS left
FrameTallied(decodedBoxes, filtered, counts, names, onCountChange) ==
  [boxes |-> decodedBoxes,
   filteredBoxes |-> filtered,
   classCounts |-> counts,
   drawn |-> DrawnLabels(filtered, names),
   calls |-> CountChangeCalls(onCountChange, TotalDetections(counts))]

\* lines 361-374: NMS over the decoded boxes, then the tally
FrameFiltered(decoded, filtered, names, onCountChange) ==
  FrameTallied(decoded.boxes, filtered,
               Tally(decoded.classCounts, filtered, names), names, onCountChange)

FrameDecoded(decoded, names, nmsThr, onCountChange) ==
  FrameFiltered(decoded, applyNMS(decoded.boxes, nmsThr), names, onCountChange)

\* lines 271-394 for a frame whose predictions were read: what detectOBB
\* computes from predsArray[0] under the class names it finds
ProcessFrame(predictions_data, names, size, confThreshold, nmsThr, onCountChange) ==
  FrameDecoded(DecodeLoop(predictions_data, names, confThreshold,
                          Rat(SourceSize[1], size[1]), Rat(SourceSize[2], size[2]),
                          1, [boxes |-> <<>>, classCounts |-> InitialCounts(names)]),
               names, nmsThr, onCountChange)

\* ------------------------------------------------------------------------
\* State
\* ------------------------------------------------------------------------
VARIABLES
  iouPc,        \* "input", "forward", "backward", "self": where the
                \* calculateOBBIoU caller stands
  iouBox1,      \* the first box [cx, cy, w, h, angle] of that caller
  iouBox2,      \* its second box
  iouForward,   \* calculateOBBIoU(corners of box 1, corners of box 2)
  iouBackward,  \* calculateOBBIoU(corners of box 2, corners of box 1)
  iouSelf,      \* calculateOBBIoU(corners of box 1, corners of box 1)
  nmsPc,        \* "input", "done", "again": where the applyNMS caller stands
  nmsBoxes,     \* the candidate list handed to applyNMS
  nmsThreshold, \* the iouThreshold handed to applyNMS
  nmsResult,    \* what applyNMS returned
  nmsAgain,     \* what applyNMS returned on its own result
  CLASS_NAMES,       \* module-level class names
  MODEL_IMAGE_SIZE,  \* module-level model input size
  model,        \* the model object: net, inputShape, onCountChange
  args,         \* confThreshold and nmsThreshold handed to detectOBB
  source,       \* the imgSource: "image" or "video"
  video,        \* the player: "playing", "paused", "ended"
  pc,           \* "off": nothing runs; "frame": detectFrame is about to run;
                \* "infer": detectOBB awaits executeAsync; "read": detectOBB
                \* awaits arraySync; "stopped": detectFrame returned at its
                \* check; "dead": detectFrame was rejected; "done": the
                \* detectOBB call on an image has settled
  modelSize,    \* [modelWidth, modelHeight] of the running detectOBB call
  namesAtCall,  \* CLASS_NAMES when the running detectOBB call began
  outputs,      \* what executeAsync resolved to in this call
  predsArray,   \* what arraySync gave in this call
  frame,        \* how the last detectOBB call ended: "none", "ok", "caught"
                \* (error handled by its catch), "rejected" (error escaped)
  namesUsed,    \* the class names this call decoded, tallied and drew with
  boxes,        \* this call's candidate boxes, before NMS
  filteredBoxes,\* this call's boxes after NMS
  classCounts,  \* this call's tally
  drawn,        \* the labels this call drew on its boxes
  countCalls,   \* the arguments of this call's model.onCountChange calls
  disposed,     \* how often this call disposed each of its tensors: img,
                \* input and the model outputs; Absent before any exists
  loops         \* the detectFrame loops App has started with detectOBBVideo,
                \* each with the thresholds of its closure (args), its
                \* detectFrame activations (frames: "frame" is a callback
                \* handed to requestAnimationFrame, "infer" and "read" a
                \* detectOBB call in flight), the player state its last
                \* detectFrame saw (lastCheck), what that run did
                \* (lastRun: "call" of detectOBB or "return") and how its
                \* last detectOBB call ended (lastFrame, as frame)

iouVars == <<iouPc, iouBox1, iouBox2, iouForward, iouBackward, iouSelf>>
nmsVars == <<nmsPc, nmsBoxes, nmsThreshold, nmsResult, nmsAgain>>
kernelVars == <<iouPc, iouBox1, iouBox2, iouForward, iouBackward, iouSelf,
                nmsPc, nmsBoxes, nmsThreshold, nmsResult, nmsAgain>>
appVars == <<loops>>
configVars == <<CLASS_NAMES, MODEL_IMAGE_SIZE>>
callVars == <<modelSize, namesAtCall, outputs, predsArray, frame, namesUsed,
              boxes, filteredBoxes, classCounts, drawn, countCalls, disposed>>
detectVars == <<CLASS_NAMES, MODEL_IMAGE_SIZE, model, args, source, video, pc,
                modelSize, namesAtCall, outputs, predsArray, frame, namesUsed,
                boxes, filteredBoxes, classCounts, drawn, countCalls, disposed>>

vars == <<iouPc, iouBox1, iouBox2, iouForward, iouBackward, iouSelf,
          nmsPc, nmsBoxes, nmsThreshold, nmsResult, nmsAgain,
          CLASS_NAMES, MODEL_IMAGE_SIZE, model, args, source, video, pc,
          modelSize, namesAtCall, outputs, predsArray, frame, namesUsed,
          boxes, filteredBoxes, classCounts, drawn, countCalls, disposed,
          loops>>

\* no calculateOBBIoU caller of its own
IoUIdle ==
  /\ iouPc = "input"
  /\ iouBox1 = [cx |-> Zero, cy |-> Zero, w |-> Two, h |-> Two, angle |-> AngleZero]
  /\ iouBox2 = [cx |-> Zero, cy |-> Zero, w |-> Two, h |-> Two, angle |-> AngleZero]
  /\ iouForward = UndefinedNumber
  /\ iouBackward = UndefinedNumber
  /\ iouSelf = UndefinedNumber

\* no detectFrame loop started from App
AppIdle == loops = <<>>

\* no applyNMS caller of its own
NMSIdle ==
  /\ nmsPc = "input"
  /\ nmsBoxes = <<>>
  /\ nmsThreshold = <<1, 10>>
  /\ nmsResult = <<>>
  /\ nmsAgain = <<>>

\* a call that has computed nothing yet
CallBlank ==
  /\ modelSize = Absent
  /\ namesAtCall = Absent
  /\ outputs = NoOutputs
  /\ predsArray = <<>>
  /\ frame = "none"
  /\ namesUsed = Absent
  /\ boxes = <<>>
  /\ filteredBoxes = <<>>
  /\ classCounts = <<>>
  /\ drawn = <<>>
  /\ countCalls = <<>>
  /\ disposed = Absent

\* the module as loaded, no detection started
DetectIdle ==
  /\ CLASS_NAMES = DefaultClassNames
  /\ MODEL_IMAGE_SIZE = DefaultImageSize
  /\ model = [net |-> TRUE, inputShape |-> Absent, onCountChange |-> TRUE]
  /\ args = [confThreshold |-> <<7, 20>>, nmsThreshold |-> <<1, 10>>]
  /\ source = "image"
  /\ video = "paused"
  /\ pc = "off"
  /\ CallBlank

\* ------------------------------------------------------------------------
\* Specification SpecNMS: applyNMS on every candidate list
\* ------------------------------------------------------------------------
InitNMS ==
  /\ nmsPc = "input"
  /\ nmsBoxes \in CandidateLists
  /\ nmsThreshold \in IouThresholds
  /\ nmsResult = <<>>
  /\ nmsAgain = <<>>
  /\ IoUIdle
  /\ DetectIdle
  /\ AppIdle

\* const filteredBoxes = applyNMS(boxes, iouThreshold)
CallApplyNMS ==
  /\ nmsPc = "input"
  /\ nmsResult' = applyNMS(nmsBoxes, nmsThreshold)
  /\ nmsPc' = "done"
  /\ UNCHANGED <<nmsBoxes, nmsThreshold, nmsAgain>>
  /\ UNCHANGED <<iouVars, detectVars, appVars>>

\* applyNMS on the list it returned, same threshold
CallApplyNMSAgain ==
  /\ nmsPc = "done"
  /\ nmsAgain' = applyNMS(nmsResult, nmsThreshold)
  /\ nmsPc' = "again"
  /\ UNCHANGED <<nmsBoxes, nmsThreshold, nmsResult>>
  /\ UNCHANGED <<iouVars, detectVars, appVars>>

NextNMS == CallApplyNMS \/ CallApplyNMSAgain

SpecNMS == InitNMS /\ [][NextNMS]_vars

\* ------------------------------------------------------------------------
\* Specification SpecIoU: calculateOBBIoU on every pair of boxes, in both
\* argument orders and on a box with itself
\* ------------------------------------------------------------------------
\* boxes with integer centres and sides, upright and rotated, of positive
\* area and of none (w = 0 or h = 0)
IoUCoordinates == { <<c, 1>> : c \in 0..MaxCoord }
IoUSides == {Zero, Two}
IoUBoxes ==
  [cx : IoUCoordinates, cy : IoUCoordinates, w : IoUSides, h : IoUSides,
   angle : Angles]

CornersOf(box) == convertToCorners(box.cx, box.cy, box.w, box.h, box.angle)

InitIoU ==
  /\ iouPc = "input"
  /\ iouBox1 \in IoUBoxes
  /\ iouBox2 \in IoUBoxes
  /\ iouForward = UndefinedNumber
  /\ iouBackward = UndefinedNumber
  /\ iouSelf = UndefinedNumber
  /\ NMSIdle
  /\ DetectIdle
  /\ AppIdle

\* const iou = calculateOBBIoU(currentBox.corners, sortedBoxes[i].corners)
CallCalculateOBBIoU ==
  /\ iouPc = "input"
  /\ iouForward' = calculateOBBIoU(CornersOf(iouBox1), CornersOf(iouBox2))
  /\ iouPc' = "forward"
  /\ UNCHANGED <<iouBox1, iouBox2, iouBackward, iouSelf>>
  /\ UNCHANGED <<nmsVars, detectVars, appVars>>

\* the same call with the boxes exchanged
CallCalculateOBBIoUSwapped ==
  /\ iouPc = "forward"
  /\ iouBackward' = calculateOBBIoU(CornersOf(iouBox2), CornersOf(iouBox1))
  /\ iouPc' = "backward"
  /\ UNCHANGED <<iouBox1, iouBox2, iouForward, iouSelf>>
  /\ UNCHANGED <<nmsVars, detectVars, appVars>>

\* the call on the first box and itself
CallCalculateOBBIoUSelf ==
  /\ iouPc = "backward"
  /\ iouSelf' = calculateOBBIoU(CornersOf(iouBox1), CornersOf(iouBox1))
  /\ iouPc' = "self"
  /\ UNCHANGED <<iouBox1, iouBox2, iouForward, iouBackward>>
  /\ UNCHANGED <<nmsVars, detectVars, appVars>>

NextIoU ==
  \/ CallCalculateOBBIoU
  \/ CallCalculateOBBIoUSwapped
  \/ CallCalculateOBBIoUSelf

SpecIoU == InitIoU /\ [][NextIoU]_vars

\* ------------------------------------------------------------------------
\* detectOBB
\* ------------------------------------------------------------------------
InputShape == <<1, 1024, 1024, 3>>

\* the models detectOBB is handed
Models ==
  [net : BOOLEAN, inputShape : {Absent, InputShape}, onCountChange : BOOLEAN]

\* where control goes once detectOBB has resolved: detectFrame requests the
\* next frame; the caller of an image detection has nothing left to do
Resolved == IF source = "video" THEN "frame" ELSE "done"

\* where control goes once detectOBB has rejected: detectFrame is rejected
\* at its await and requests nothing
Rejected == IF source = "video" THEN "dead" ELSE "done"

\* detectOBB up to its first await, lines 197-216: the net check, the model
\* size, the pixels (tf.browser.fromPixels and tf.tidy, outside the try) and
\* the start of the inference
BeginDetectOBB ==
  IF ~model.net
  THEN /\ pc' = Resolved
       /\ UNCHANGED callVars
  ELSE \E pixelsRead \in BOOLEAN :
       /\ namesAtCall' = CLASS_NAMES
       /\ outputs' = NoOutputs
       /\ predsArray' = <<>>
       /\ namesUsed' = Absent
       /\ boxes' = <<>>
       /\ filteredBoxes' = <<>>
       /\ classCounts' = <<>>
       /\ drawn' = <<>>
       /\ countCalls' = <<>>
       /\ disposed' = IF pixelsRead THEN ImgAndInput ELSE Absent
       /\ IF pixelsRead
          THEN /\ modelSize' = IF model.inputShape # Absent
                               THEN <<model.inputShape[2], model.inputShape[3]>>
                               ELSE MODEL_IMAGE_SIZE
               /\ frame' = "none"
               /\ pc' = "infer"
          ELSE /\ modelSize' = Absent
               /\ frame' = "rejected"
               /\ pc' = Rejected

\* the catch of detectOBB, lines 395-406, entered with the given tensors;
\* detectOBB then resolves
CaughtError(tensors) ==
  /\ disposed' = DisposeImgAndInput(tensors)
  /\ frame' = "caught"
  /\ pc' = Resolved
  /\ UNCHANGED <<namesUsed, boxes, filteredBoxes, classCounts, drawn, countCalls>>

\* executeAsync settles, lines 216-266
ExecuteSettles ==
  /\ pc = "infer"
  /\ \/ \* the inference rejects
        /\ CaughtError(disposed)
        /\ UNCHANGED outputs
     \/ \E out \in ModelOutputs :
          /\ outputs' = out
          /\ IF out.tensors[SelectPredictions(out)].shapeLength = 3
             THEN \* await predictions.arraySync()
                  /\ pc' = "read"
                  /\ disposed' = WithOutputs(disposed, out)
                  /\ UNCHANGED <<frame, namesUsed, boxes, filteredBoxes,
                                 classCounts, drawn, countCalls>>
             ELSE CaughtError(WithOutputs(disposed, out))  \* throw at line 265
  /\ UNCHANGED <<modelSize, namesAtCall, predsArray>>
  /\ UNCHANGED <<model, args, source, video>>
  /\ UNCHANGED <<configVars, kernelVars, appVars>>

\* detectOBB resumes with predsArray, lines 258-394, in one synchronous run
ArraySyncResumes(maxRows) ==
  /\ pc = "read"
  /\ \E read \in PredsArrays(maxRows) :
       /\ predsArray' = read
       /\ IF Len(read) = 0
          THEN CaughtError(disposed)    \* throw at line 262
          ELSE IF Len(read[1]) = 0
          THEN \* tf.dispose at line 269, then predictions_data[0] is
               \* undefined at line 305
               CaughtError(DisposeAll(disposed))
          ELSE \E r \in {ProcessFrame(read[1], CLASS_NAMES, modelSize,
                                      args.confThreshold, args.nmsThreshold,
                                      model.onCountChange)} :
                   /\ namesUsed' = CLASS_NAMES
                   /\ boxes' = r.boxes
                   /\ filteredBoxes' = r.filteredBoxes
                   /\ classCounts' = r.classCounts
                   /\ drawn' = r.drawn
                   /\ countCalls' = r.calls
                   /\ disposed' = DisposeAll(disposed)
                   /\ frame' = "ok"
                   /\ pc' = Resolved
  /\ UNCHANGED <<modelSize, namesAtCall, outputs>>
  /\ UNCHANGED <<model, args, source, video>>
  /\ UNCHANGED <<configVars, kernelVars, appVars>>

\* ------------------------------------------------------------------------
\* Specification SpecImage: detectOBB called on an image, again and again,
\* under every configuration updateModelConfig can have left
\* ------------------------------------------------------------------------
ClassNameLists ==
  {DefaultClassNames} \cup
  { EntriesByKey(m.names, DOMAIN m.names) : m \in {x \in Metadatas : x.names # Absent} }

InitImage ==
  /\ IoUIdle
  /\ NMSIdle
  /\ AppIdle
  /\ CLASS_NAMES \in ClassNameLists
  /\ MODEL_IMAGE_SIZE \in {DefaultImageSize, MetadataImageSize}
  /\ model \in Models
  /\ args \in [confThreshold : ConfThresholds, nmsThreshold : {<<1, 10>>}]
  /\ source = "image"
  /\ video = "paused"
  /\ pc = "off"
  /\ CallBlank

\* App.jsx calls detectOBB(imageRef.current, model, canvas, ...), lines 119-122
\* and 287-291
DetectImage ==
  /\ source = "image"
  /\ pc \in {"off", "done"}
  /\ BeginDetectOBB
  /\ UNCHANGED <<model, args, source, video>>
  /\ UNCHANGED <<configVars, kernelVars, appVars>>

ImageArraySyncResumes == ArraySyncResumes(MaxDet)

NextImage == DetectImage \/ ExecuteSettles \/ ImageArraySyncResumes

SpecImage == InitImage /\ [][NextImage]_vars

\* ------------------------------------------------------------------------
\* Specification Spec: one detectOBBVideo loop over the frames of a video,
\* with updateModelConfig and the player acting in between
\* ------------------------------------------------------------------------
Init ==
  /\ IoUIdle
  /\ NMSIdle
  /\ AppIdle
  /\ CLASS_NAMES = DefaultClassNames
  /\ MODEL_IMAGE_SIZE = DefaultImageSize
  /\ model \in Models
  /\ args \in [confThreshold : ConfThresholds, nmsThreshold : {<<1, 10>>}]
  /\ source = "video"
  /\ video = "playing"
  /\ pc = "off"
  /\ CallBlank

\* updateModelConfig(metadata), lines 16-31
updateModelConfig ==
  \E metadata \in Metadatas :
    /\ CLASS_NAMES' = IF metadata.names # Absent THEN NamesOf(metadata)
                      ELSE CLASS_NAMES
    /\ MODEL_IMAGE_SIZE' = IF metadata.imgsz # Absent /\ Len(metadata.imgsz) >= 2
                           THEN <<metadata.imgsz[1], metadata.imgsz[2]>>
                           ELSE MODEL_IMAGE_SIZE
    /\ UNCHANGED <<model, args, source, video, pc>>
    /\ UNCHANGED callVars
    /\ UNCHANGED <<kernelVars, appVars>>

\* the player: the video pauses, ends, plays again
PauseVideo ==
  /\ video = "playing"
  /\ video' = "paused"
  /\ UNCHANGED <<model, args, source, pc>>
  /\ UNCHANGED <<configVars, callVars, kernelVars, appVars>>

EndVideo ==
  /\ video = "playing"
  /\ video' = "ended"
  /\ UNCHANGED <<model, args, source, pc>>
  /\ UNCHANGED <<configVars, callVars, kernelVars, appVars>>

PlayVideo ==
  /\ video # "playing"
  /\ video' = "playing"
  /\ UNCHANGED <<model, args, source, pc>>
  /\ UNCHANGED <<configVars, callVars, kernelVars, appVars>>

\* detectFrame, lines 432-436, up to the first await of detectOBB
DetectFrameBody ==
  IF video \in {"paused", "ended"}
  THEN /\ pc' = "stopped"
       /\ UNCHANGED callVars
  ELSE BeginDetectOBB

\* detectOBBVideo, lines 431-438: starts the loop with a first detectFrame();
\* here only while no loop runs
detectOBBVideo ==
  /\ source = "video"
  /\ pc \in {"off", "stopped", "dead"}
  /\ DetectFrameBody
  /\ UNCHANGED <<model, args, source, video>>
  /\ UNCHANGED <<configVars, kernelVars, appVars>>

\* detectFrame as the callback of requestAnimationFrame
detectFrame ==
  /\ pc = "frame"
  /\ DetectFrameBody
  /\ UNCHANGED <<model, args, source, video>>
  /\ UNCHANGED <<configVars, kernelVars, appVars>>

VideoArraySyncResumes == ArraySyncResumes(MaxVideoDet)

Next ==
  \/ updateModelConfig
  \/ PauseVideo
  \/ EndVideo
  \/ PlayVideo
  \/ detectOBBVideo
  \/ detectFrame
  \/ ExecuteSettles
  \/ VideoArraySyncResumes

Spec == Init /\ [][Next]_vars

\* ------------------------------------------------------------------------
\* Specification SpecApp: the detectFrame loops App starts on its video
\* element, by onPlay and by handleRedetect after a change of threshold
\* ------------------------------------------------------------------------
\* videoElement.paused || videoElement.ended with the end ignored
PausedOnly(player) == player = "paused"

\* videoElement.paused || videoElement.ended, line 433
PausedOrEnded(player) == player \in {"paused", "ended"}

ReplaceAt(s, i, new) == SubSeq(s, 1, i - 1) \o new \o SubSeq(s, i + 1, Len(s))

\* what is left of a detectFrame activation when detectOBB has run up to its
\* first await: a detectOBB call awaiting the inference; nothing when
\* detectOBB rejected (pixels not read); the next callback when detectOBB
\* returned at once (no net)
StartedCall(net, pixelsRead) ==
  IF ~net THEN <<"frame">>
  ELSE IF pixelsRead THEN <<"infer">>
  ELSE <<>>

\* detectFrame, lines 432-436, run as activation i of a loop, up to the
\* first await of detectOBB
RunDetectFrame(loop, i, player, net, pixelsRead) ==
  IF PausedOrEnded(player)
  THEN [loop EXCEPT !.frames = ReplaceAt(@, i, <<>>),
                    !.lastCheck = player, !.lastRun = "return"]
  ELSE [loop EXCEPT !.frames = ReplaceAt(@, i, StartedCall(net, pixelsRead)),
                    !.lastCheck = player, !.lastRun = "call",
                    !.lastFrame = IF net /\ ~pixelsRead THEN "rejected" ELSE @]

\* detectOBBVideo(videoElement, model, canvas, confThreshold, nmsThreshold),
\* lines 431-438: a new loop, whose first detectFrame() runs at once
StartLoop(thresholds, player, net, pixelsRead) ==
  RunDetectFrame([args |-> thresholds, frames |-> <<"frame">>,
                  lastCheck |-> "none", lastRun |-> "none",
                  lastFrame |-> "none"],
                 1, player, net, pixelsRead)

InitApp ==
  /\ IoUIdle
  /\ NMSIdle
  /\ CLASS_NAMES = DefaultClassNames
  /\ MODEL_IMAGE_SIZE = DefaultImageSize
  /\ model \in {m \in Models : m.inputShape = InputShape /\ m.onCountChange}
  /\ args \in [confThreshold : ConfThresholds, nmsThreshold : {<<1, 10>>}]
  /\ source = "video"
  /\ video = "paused"
  /\ pc = "off"
  /\ CallBlank
  /\ AppIdle

\* onPlay of the video element, App.jsx lines 309-314: the player plays and,
\* with a net loaded, App calls detectOBBVideo with its thresholds
onPlay ==
  /\ video # "playing"
  /\ video' = "playing"
  /\ IF model.net /\ Len(loops) < MaxLoops
     THEN \E pixelsRead \in BOOLEAN :
            loops' = Append(loops, StartLoop(args, "playing", model.net, pixelsRead))
     ELSE UNCHANGED loops
  /\ UNCHANGED <<model, args, source, pc>>
  /\ UNCHANGED <<configVars, callVars, kernelVars>>

\* handleRedetect, App.jsx lines 115-134, with the video element shown:
\* detectOBBVideo is called again, whatever loop is running
handleRedetect(thresholds) ==
  IF model.net /\ source = "video" /\ Len(loops) < MaxLoops
  THEN \E pixelsRead \in BOOLEAN :
         loops' = Append(loops, StartLoop(thresholds, video, model.net, pixelsRead))
  ELSE UNCHANGED loops

\* the confidence slider, App.jsx lines 240-248: the threshold changes and
\* the effect of lines 155-159 calls handleRedetect with the new value
setConfThreshold ==
  /\ \E c \in ConfThresholds \ {args.confThreshold} :
       /\ args' = [args EXCEPT !.confThreshold = c]
       /\ handleRedetect(args')
  /\ UNCHANGED <<model, source, video, pc>>
  /\ UNCHANGED <<configVars, callVars, kernelVars>>

\* a callback handed to requestAnimationFrame runs: detectFrame
LoopDetectFrame ==
  /\ \E l \in 1..Len(loops) : \E i \in 1..Len(loops[l].frames) :
       /\ loops[l].frames[i] = "frame"
       /\ \E pixelsRead \in BOOLEAN :
            loops' = [loops EXCEPT ![l] =
                        RunDetectFrame(@, i, video, model.net, pixelsRead)]
  /\ UNCHANGED <<model, args, source, video, pc>>
  /\ UNCHANGED <<configVars, callVars, kernelVars>>

\* executeAsync of a call in flight settles: the call goes on to arraySync,
\* or its catch runs, it resolves and detectFrame requests the next frame
LoopExecuteSettles ==
  /\ \E l \in 1..Len(loops) : \E i \in 1..Len(loops[l].frames) :
       /\ loops[l].frames[i] = "infer"
       /\ \/ loops' = [loops EXCEPT ![l].frames[i] = "read"]
          \/ loops' = [loops EXCEPT ![l].frames[i] = "frame",
                                    ![l].lastFrame = "caught"]
  /\ UNCHANGED <<model, args, source, video, pc>>
  /\ UNCHANGED <<configVars, callVars, kernelVars>>

\* a call in flight resumes after arraySync and runs to its end, drawing its
\* boxes or its error; it resolves and detectFrame requests the next frame
LoopArraySyncResumes ==
  /\ \E l \in 1..Len(loops) : \E i \in 1..Len(loops[l].frames) :
       /\ loops[l].frames[i] = "read"
       /\ \E end \in {"ok", "caught"} :
            loops' = [loops EXCEPT ![l].frames[i] = "frame",
                                  ![l].lastFrame = end]
  /\ UNCHANGED <<model, args, source, video, pc>>
  /\ UNCHANGED <<configVars, callVars, kernelVars>>

NextApp ==
  \/ onPlay
  \/ PauseVideo
  \/ EndVideo
  \/ setConfThreshold
  \/ LoopDetectFrame
  \/ LoopExecuteSettles
  \/ LoopArraySyncResumes

SpecApp == InitApp /\ [][NextApp]_vars

\* ------------------------------------------------------------------------
\* Rotated NMS: properties (specification SpecNMS)
\* ------------------------------------------------------------------------
RECURSIVE IsSubSeq(_, _)
IsSubSeq(s, t) ==
  IF s = <<>> THEN TRUE
  ELSE IF t = <<>> THEN FALSE
  ELSE IF Head(s) = Head(t) THEN IsSubSeq(Tail(s), Tail(t))
  ELSE IsSubSeq(s, Tail(t))

OfClass(list, k) == SelectSeq(list, LAMBDA b : b.classIndex = k)
OfConfidence(list, c) == SelectSeq(list, LAMBDA b : b.confidence = c)

IouExceeds(a, b, t) == RGt(OBBIoU(a.corners, b.corners), t)

\* C1: the list applyNMS returns never holds two distinct boxes of the same
\* classIndex whose rotated IoU, in either argument order, exceeds iouThreshold.
C1_NoOverlappingPairRetained ==
  nmsPc # "input" =>
    \A i, j \in 1..Len(nmsResult) :
      (i # j /\ nmsResult[i].classIndex = nmsResult[j].classIndex)
        => ~IouExceeds(nmsResult[i], nmsResult[j], nmsThreshold)

\* C2: a candidate is never removed on account of a box of another class:
\* what applyNMS keeps of one class is what it keeps when given that class
\* alone, and an input of pairwise different classes is returned whole.
PairwiseDifferentClasses(list) ==
  \A i, j \in 1..Len(list) : i # j => list[i].classIndex # list[j].classIndex

C2_OtherClassNeverSuppresses ==
  nmsPc # "input" =>
    /\ \A k \in ClassIndices :
         OfClass(nmsResult, k) = applyNMS(OfClass(nmsBoxes, k), nmsThreshold)
    /\ PairwiseDifferentClasses(nmsBoxes) =>
         /\ Len(nmsResult) = Len(nmsBoxes)
         /\ \A i \in 1..Len(nmsBoxes) : \E j \in 1..Len(nmsResult) :
              nmsResult[j] = nmsBoxes[i]

\* two identical boxes of different classes, threshold 0.1, both returned
C2_Witness ==
  /\ nmsPc = "done"
  /\ nmsThreshold = <<1, 10>>
  /\ Len(nmsBoxes) = 2
  /\ nmsBoxes[1].corners = nmsBoxes[2].corners
  /\ nmsBoxes[1].classIndex # nmsBoxes[2].classIndex
  /\ IouExceeds(nmsBoxes[1], nmsBoxes[2], nmsThreshold)
  /\ Len(nmsResult) = 2

\* C3: the boxes applyNMS returns are in descending order of confidence, and
\* returned boxes of equal confidence keep the relative order of the input.
C3_SortedStable ==
  nmsPc # "input" =>
    /\ \A i, j \in 1..Len(nmsResult) :
         i < j => RGe(nmsResult[i].confidence, nmsResult[j].confidence)
    /\ \A c \in Confidences :
         IsSubSeq(OfConfidence(nmsResult, c), OfConfidence(nmsBoxes, c))

\* a low box given before two different tied high boxes: the result leads
\* with the tied boxes in their input order
C3_Witness ==
  /\ nmsPc = "done"
  /\ Len(nmsBoxes) = 3 /\ Len(nmsResult) = 3
  /\ RGt(nmsBoxes[2].confidence, nmsBoxes[1].confidence)
  /\ nmsBoxes[2].confidence = nmsBoxes[3].confidence
  /\ nmsBoxes[2] # nmsBoxes[3]
  /\ nmsResult = <<nmsBoxes[2], nmsBoxes[3], nmsBoxes[1]>>

\* C4: applyNMS is idempotent: applied to its own result with the same
\* threshold it returns the same boxes in the same order.
C4_Idempotent == nmsPc = "again" => nmsAgain = nmsResult

\* a run in which the first call suppressed a box and kept at least two
C4_Witness ==
  /\ nmsPc = "again"
  /\ Len(nmsResult) >= 2
  /\ Len(nmsResult) < Len(nmsBoxes)
  /\ nmsAgain = nmsResult

\* how often a box occurs in a list
Occurrences(list, box) == Cardinality({ i \in 1..Len(list) : list[i] = box })

\* the first of the boxes of greatest confidence
FirstBest(list) ==
  list[CHOOSE k \in 1..Len(list) :
         /\ \A m \in 1..Len(list) : ~RGt(list[m].confidence, list[k].confidence)
         /\ \A m \in 1..(k - 1) : list[m].confidence # list[k].confidence]

\* a returned box of the class of the given box, of no smaller confidence,
\* whose IoU with it, as applyNMS computes it, exceeds the threshold
Justified(box) ==
  \E j \in 1..Len(nmsResult) :
    /\ nmsResult[j].classIndex = box.classIndex
    /\ RGe(nmsResult[j].confidence, box.confidence)
    /\ IouExceeds(nmsResult[j], box, nmsThreshold)

AreaOf(box) == calculatePolygonArea(CornersToPolygon(CornersOf(box)))

\* C11: calculateOBBIoU returns 0, and no NaN or infinite value, when both
\* boxes have zero area (so that area(A) + area(B) - area(intersection) is 0).
C11_DegenerateIoUIsZero ==
  (iouPc # "input" /\ AreaOf(iouBox1) = Zero /\ AreaOf(iouBox2) = Zero)
    => iouForward = Zero

\* C12: for boxes of positive area, calculateOBBIoU gives the same value in
\* both argument orders, and 1 for a box with itself.
C12_SymmetricAndReflexive ==
  (iouPc = "self" /\ AreaOf(iouBox1) # Zero /\ AreaOf(iouBox2) # Zero)
    => /\ iouForward = iouBackward
       /\ iouSelf = One

\* ------------------------------------------------------------------------
\* detectOBB: properties (specifications SpecImage and Spec)
\* ------------------------------------------------------------------------
\* the channels this call read, and the number of detection rows in them
ReadData == predsArray[1]
ReadRows == Len(predsArray[1][1])
FrameRead == Len(predsArray) > 0 /\ Len(predsArray[1]) > 0

\* the class scores of detection row i: the values after the four box
\* values, one per configured class name
ScoresOfRow(i) ==
  [k \in 1..MinOf(Len(CLASS_NAMES), Len(ReadData) - 4) |-> ReadData[4 + k][i]]

\* the position of the first of the greatest scores
FirstMaximum(scores) ==
  CHOOSE k \in 1..Len(scores) :
    /\ \A m \in 1..Len(scores) : ~RGt(scores[m], scores[k])
    /\ \A m \in 1..(k - 1) : scores[m] # scores[k]

NoRowAboveThreshold ==
  \A i \in 1..ReadRows : \A k \in 1..Len(ScoresOfRow(i)) :
    ~RGt(ScoresOfRow(i)[k], args.confThreshold)

SurvivorsLabelled(label) ==
  { i \in 1..Len(filteredBoxes) :
      NameAt(namesUsed, filteredBoxes[i].classIndex) = label }

\* C5: when a detectOBB call completes, classCounts[label] is the number of
\* boxes that survived NMS in this call and whose classIndex maps to label,
\* for every class label, and the total is the number of surviving boxes.
C5_TallyCountsSurvivors ==
  frame = "ok" =>
    /\ \A k \in 1..Len(namesUsed) : namesUsed[k] \in DOMAIN classCounts
    /\ \A label \in DOMAIN classCounts :
         classCounts[label] = Cardinality(SurvivorsLabelled(label))
    /\ TotalDetections(classCounts) = Len(filteredBoxes)

\* a completed call in which NMS suppressed a candidate that had been counted
C5_Witness ==
  /\ frame = "ok"
  /\ Len(boxes) = 2
  /\ Len(filteredBoxes) = 1
  /\ classCounts[NameAt(namesUsed, filteredBoxes[1].classIndex)] = 1

\* C6: a frame whose detectOBB fails, at whatever step, leaves an empty
\* result, and the detectFrame loop goes on to the following frames.
C6_FrameFailureIsolated ==
  frame \in {"caught", "rejected"} =>
    /\ pc \in {"frame", "infer", "read", "stopped"}
    /\ filteredBoxes = <<>>
    /\ countCalls = <<>>

\* C7: a detectOBB call decodes, tallies and draws with the class names and
\* the model image size of the moment it was called, whatever
\* updateModelConfig does while it awaits the inference.
C7_ConfigFixedDuringCall ==
  frame = "ok" =>
    /\ namesUsed = namesAtCall
    /\ drawn = DrawnLabels(filteredBoxes, namesAtCall)

\* C8: model.onCountChange is invoked exactly once by a detectOBB call that
\* completes a frame, with the number of boxes that survived NMS, and is
\* never invoked twice for one frame nor by a call that did not complete.
C8_CountCallbackOncePerFrame ==
  /\ (frame = "ok" /\ model.onCountChange) => countCalls = <<Len(filteredBoxes)>>
  /\ (frame # "ok" \/ ~model.onCountChange) => countCalls = <<>>

\* a completed call that counted two candidates and reported the one survivor
C8_Witness ==
  /\ frame = "ok"
  /\ model.onCountChange
  /\ Len(boxes) = 2
  /\ countCalls = <<1>>

\* C9: a frame whose output holds no detection, or no row with a class score
\* above confThreshold, is no error: detectOBB completes with no box, every
\* class count 0 and a total of 0.
C9_EmptyFrameIsNoError ==
  (FrameRead /\ NoRowAboveThreshold) =>
    /\ frame = "ok"
    /\ boxes = <<>>
    /\ filteredBoxes = <<>>
    /\ DOMAIN classCounts = {CLASS_NAMES[k] : k \in 1..Len(CLASS_NAMES)}
    /\ \A label \in DOMAIN classCounts : classCounts[label] = 0
    /\ countCalls = IF model.onCountChange THEN <<0>> ELSE <<>>

\* a frame with a row whose best score equals the threshold, completed empty
C9_Witness ==
  /\ FrameRead
  /\ ReadRows > 0
  /\ \E i \in 1..ReadRows : \E k \in 1..Len(ScoresOfRow(i)) :
       ScoresOfRow(i)[k] = args.confThreshold
  /\ NoRowAboveThreshold
  /\ frame = "ok"
  /\ filteredBoxes = <<>>

\* the rows of the frame with the class index and confidence C10 states
ExpectedOfRow(i) ==
  [classIndex |-> FirstMaximum(ScoresOfRow(i)) - 1,
   confidence |-> ScoresOfRow(i)[FirstMaximum(ScoresOfRow(i))]]

EmittedRows ==
  SelectSeq([i \in 1..ReadRows |-> ExpectedOfRow(i)],
            LAMBDA b : RGt(b.confidence, args.confThreshold))

\* C10: the decoder gives each row the lowest index of its greatest class
\* score as classIndex and that score as confidence, and emits a box for
\* the row only if that confidence is strictly above confThreshold.
C10_FirstArgmaxStrictThreshold ==
  frame = "ok" =>
    [i \in 1..Len(boxes) |->
       [classIndex |-> boxes[i].classIndex, confidence |-> boxes[i].confidence]]
      = EmittedRows

\* a frame of two rows: one with tied scores above the threshold, emitted
\* with class 0; the other with its best score at the threshold, not emitted
C10_Witness ==
  /\ frame = "ok"
  /\ ReadRows = 2
  /\ Len(boxes) = 1
  /\ \E i \in 1..ReadRows :
       /\ ScoresOfRow(i)[1] = ScoresOfRow(i)[2]
       /\ RGt(ScoresOfRow(i)[1], args.confThreshold)
  /\ boxes[1].classIndex = 0
  /\ boxes[1].confidence = <<1, 2>>

\* C15: when a detectOBB call has settled, on its success path or through its
\* catch, each tensor of the call (img, input, every output of the model) has
\* been disposed exactly once.
C15_EveryTensorDisposedOnce ==
  frame \in {"ok", "caught"} =>
    \A i \in 1..Len(disposed) : disposed[i] = 1

\* ------------------------------------------------------------------------
\* The frame loops: properties (specification SpecApp)
\* ------------------------------------------------------------------------
ActiveLoops == { l \in 1..Len(loops) : loops[l].frames # <<>> }

StaleLoops == { l \in ActiveLoops : loops[l].args # args }

InFlight(l) == { i \in 1..Len(loops[l].frames) : loops[l].frames[i] \in {"infer", "read"} }

\* C13: in every detectFrame loop, detectOBB is called only by a detectFrame
\* whose check saw the video playing; a loop whose check saw it paused or
\* ended has no callback and no call left; and a loop never has more than one
\* activation, so that a frame is requested only when the detectOBB call of
\* the frame before has settled and no loop has two calls in flight.
C13_LoopChecksBeforeEachFrame ==
  \A l \in 1..Len(loops) :
    /\ loops[l].lastRun = "call" => loops[l].lastCheck = "playing"
    /\ loops[l].lastCheck \in {"paused", "ended"} =>
         (loops[l].lastRun = "return" /\ loops[l].frames = <<>>)
    /\ Len(loops[l].frames) <= 1
    /\ Cardinality(InFlight(l)) <= 1

\* a loop that ran for a frame and then stopped at the check of an ended
\* video, next to a loop that is started on the ended video and calls nothing
C13_Witness ==
  /\ video = "ended"
  /\ Len(loops) = 2
  /\ loops[1].lastCheck = "ended" /\ loops[1].lastRun = "return"
  /\ loops[1].frames = <<>>
  /\ loops[2].lastCheck = "ended" /\ loops[2].frames = <<>>

\* C14: a change of threshold made while at most one loop is active leaves at
\* most one loop active, and none that runs with the thresholds of before.
C14_RedetectReplacesLoop ==
  [][(args' # args /\ Cardinality(ActiveLoops) <= 1)
       => (Cardinality(ActiveLoops') <= 1 /\ StaleLoops' = {})]_vars

====
